---- MODULE Spec2Model ----
(***************************************************************************)
(* Model of the cc-conversations dashboard: the GET /api/conversations     *)
(* handler (engagement resolution), the messages and latest-messages       *)
(* handlers, and the mentor response-time analyzer.                        *)
(* Strings are sequences of one-character strings, so that the regular     *)
(* expressions and the `${a}_${b}` lookup keys are computed, not assumed.  *)
(***************************************************************************)
EXTENDS Integers, Sequences, FiniteSets, TLC

VARIABLES
    dbConversations,      \* rows of prisma.conversations
    dbUsers,              \* rows of prisma.users
    dbEngagements,        \* rows of prisma.engagements
    dbUsersEngagements,   \* rows of the users_engagements relation
    dbGuardianStudents,   \* rows of the guardian_students relation
    dbMessages,           \* rows of prisma.messages
    pc,                   \* the await the handler is suspended at
    conversations,        \* route.ts:8   result of the first query
    users,                \* route.ts:27  result of the second query
    groupEngagements,     \* route.ts:67  result of the third query
    response,             \* what the handler returned (Null while running)
    conversationUuid,     \* part_000:11 the route parameter of the messages route
    fetchedMessages,      \* part_000:18 `messages`, result of the messages query
    allMessages,          \* latest-messages/route.ts:17 result of the messages query
    cachedMessages,       \* page.tsx:594 the messages the analyzer is given
    responseTimeData,     \* page.tsx:624 what the analyzer returned
    userSearch,           \* page.tsx:74  the text of the user search box
    pageConversations,    \* page.tsx:75  `conversations`, the search result shown
    loading,              \* page.tsx:76
    selectedConversation, \* page.tsx:77  uuid of the selected conversation, or Null
    pageMessages,         \* page.tsx:79  `messages`, the list shown in the panel
    messagesCache,        \* page.tsx:80
    loadingMessages,      \* page.tsx:83
    conversationMessageCounts,  \* page.tsx:84
    conversationLatestDates,    \* page.tsx:87
    searchRequests,       \* page.tsx:99  calls of searchConversations awaiting fetch
    messageRequests,      \* page.tsx:223 calls of fetchMessages awaiting fetch
    preloadRequests,      \* page.tsx:161 preload callbacks awaiting fetch
    latestSearchResult    \* what the most recently started search set, once it is over

vars == <<dbConversations, dbUsers, dbEngagements, dbUsersEngagements,
          dbGuardianStudents, dbMessages, pc, conversations, users,
          groupEngagements, response, conversationUuid, fetchedMessages,
          allMessages,
          cachedMessages, responseTimeData, userSearch, pageConversations,
          loading, selectedConversation, pageMessages, messagesCache,
          loadingMessages, conversationMessageCounts, conversationLatestDates,
          searchRequests, messageRequests, preloadRequests, latestSearchResult>>

dbVars == <<dbConversations, dbUsers, dbEngagements, dbUsersEngagements,
            dbGuardianStudents, dbMessages>>

messageVars == <<conversationUuid, fetchedMessages, allMessages>>

handlerVars == <<conversations, users, groupEngagements, response>>

pageVars == <<cachedMessages, responseTimeData>>

dashboardVars == <<userSearch, pageConversations, loading, selectedConversation,
                   pageMessages, messagesCache, loadingMessages,
                   conversationMessageCounts, conversationLatestDates,
                   searchRequests, messageRequests, preloadRequests,
                   latestSearchResult>>

----------------------------------------------------------------------------
(* Bounds of the model *)

MaxConvs == 2

MaxMsgs == 3

MaxTime == 2

\* requests that the page has in flight at a time
MaxInFlight == 2

----------------------------------------------------------------------------
(* JavaScript values *)

\* null / a present value: a sequence of length 0 or 1
Null == <<>>
Some(v) == <<v>>
Get(o) == o[1]

Min(S) == CHOOSE x \in S : \A y \in S : x <= y

Rep(c, n) == [i \in 1..n |-> c]

\* a string of the shape xxxxxxxx-xxxx-xxxx-xxxx-xxxxxxxxxxxx
MkUuid(c) == Rep(c, 8) \o <<"-">> \o Rep(c, 4) \o <<"-">> \o Rep(c, 4)
             \o <<"-">> \o Rep(c, 4) \o <<"-">> \o Rep(c, 12)

\* Array.from(new Set(xs)): first occurrences, in order
RECURSIVE Dedup(_)
Dedup(xs) ==
    IF xs = <<>> THEN <<>>
    ELSE LET front == Dedup(SubSeq(xs, 1, Len(xs) - 1))
             x == xs[Len(xs)]
         IN IF \E i \in 1..Len(front) : front[i] = x THEN front
            ELSE Append(front, x)

\* xs.flatMap(f) for a sequence of sequences
RECURSIVE Flatten(_)
Flatten(xss) ==
    IF xss = <<>> THEN <<>> ELSE Head(xss) \o Flatten(Tail(xss))

Range(xs) == {xs[i] : i \in 1..Len(xs)}

\* xs.filter(p) given the set of indices that pass
RECURSIVE FilterIdx(_, _)
FilterIdx(xs, keep) ==
    IF xs = <<>> THEN <<>>
    ELSE LET front == FilterIdx(SubSeq(xs, 1, Len(xs) - 1), keep)
         IN IF Len(xs) \in keep THEN Append(front, xs[Len(xs)]) ELSE front

----------------------------------------------------------------------------
(* The two regular expressions of route.ts *)

UuidLen == 36

UuidChars == {"0", "1", "2", "3", "4", "5", "6", "7", "8", "9",
              "a", "b", "c", "d", "e", "f", "-"}

LineTerminators == {"\n", "\r"}

GroupPrefix == <<"g", "r", "o", "u", "p", "_", "g", "r", "o", "u", "p", "-">>

UserSep == <<"_", "u", "s", "e", "r", "_">>

OccursAt(s, lit, p) ==
    /\ p >= 1
    /\ p + Len(lit) - 1 <= Len(s)
    /\ SubSeq(s, p, p + Len(lit) - 1) = lit

AllIn(s, a, b, cls) ==
    /\ a >= 1
    /\ b <= Len(s)
    /\ \A i \in a..b : s[i] \in cls

\* s.match(/group_group-(.+)/): Some(match[1]) or Null.  Unanchored: the
\* leftmost occurrence of the literal that is followed by at least one
\* character other than a line terminator; the group is greedy to the end
\* of that line.
GroupMatch(s) ==
    LET n == Len(GroupPrefix)
        starts == {p \in 1..Len(s) :
                     /\ OccursAt(s, GroupPrefix, p)
                     /\ p + n <= Len(s)
                     /\ s[p + n] \notin LineTerminators}
    IN IF starts = {} THEN Null
       ELSE LET from == Min(starts) + n
                stops == {q \in from..Len(s) : s[q] \in LineTerminators}
                to == IF stops = {} THEN Len(s) ELSE Min(stops) - 1
            IN Some(SubSeq(s, from, to))

\* s.match(/([0-9a-f-]{36})_user_([0-9a-f-]{36})/): Some of match[1] and
\* match[2], or Null.  Unanchored: the leftmost position where 36 characters
\* of the class, the separator and 36 more characters of the class follow.
PairMatch(s) ==
    LET m == Len(UserSep)
        starts == {p \in 1..Len(s) :
                     /\ OccursAt(s, UserSep, p + UuidLen)
                     /\ AllIn(s, p, p + UuidLen - 1, UuidChars)
                     /\ AllIn(s, p + UuidLen + m, p + 2 * UuidLen + m - 1, UuidChars)}
    IN IF starts = {} THEN Null
       ELSE LET p == Min(starts)
            IN Some([userUuid1 |-> SubSeq(s, p, p + UuidLen - 1),
                     userUuid2 |-> SubSeq(s, p + UuidLen + m, p + 2 * UuidLen + m - 1)])

----------------------------------------------------------------------------
(* The store queries of GET /api/conversations *)

Perms(S) ==
    {f \in [1..Cardinality(S) -> S] : \A x \in S : \E i \in DOMAIN f : f[i] = x}

\* orderBy: { updatedAt: 'desc' } (the rows carry distinct updatedAt values)
RECURSIVE SortByUpdatedAtDesc(_)
SortByUpdatedAtDesc(rows) ==
    IF rows = <<>> THEN <<>>
    ELSE LET top == CHOOSE i \in 1..Len(rows) :
                        \A k \in 1..Len(rows) : rows[k].updatedAt <= rows[i].updatedAt
         IN <<rows[top]>> \o
            SortByUpdatedAtDesc(FilterIdx(rows, (1..Len(rows)) \ {top}))

\* route.ts:23  Array.from(new Set(conversations.flatMap(conv => conv.userUuids)))
allUserUuids(convs) ==
    Dedup(Flatten([i \in 1..Len(convs) |-> convs[i].userUuids]))

\* faulty variant of groupEngagementUuids: the filter tests for the other type
groupEngagementUuidsOfUsers(convs) ==
    LET groups == FilterIdx(convs, {i \in 1..Len(convs) :
                                      convs[i].cometConversationType = "user"})
        matches == [i \in 1..Len(groups) |-> GroupMatch(groups[i].cometConversationId)]
    IN Flatten(matches)

\* route.ts:44  the fragments of the group conversations, in order
groupEngagementUuids(convs) ==
    LET groups == FilterIdx(convs, {i \in 1..Len(convs) :
                                      convs[i].cometConversationType = "group"})
        matches == [i \in 1..Len(groups) |-> GroupMatch(groups[i].cometConversationId)]
    IN Flatten(matches)

\* route.ts:53  the pairs of the user conversations, in order
userConversationPairs(convs) ==
    LET usrs == FilterIdx(convs, {i \in 1..Len(convs) :
                                    convs[i].cometConversationType = "user"})
        matches == [i \in 1..Len(usrs) |->
                      LET match == PairMatch(usrs[i].cometConversationId)
                      IN IF match = Null THEN Null
                         ELSE Some([conversationUuid |-> usrs[i].uuid,
                                    userUuid1 |-> Get(match).userUuid1,
                                    userUuid2 |-> Get(match).userUuid2])]
    IN Flatten(matches)

\* route.ts:62  Array.from(new Set(pairs.flatMap(pair => [uuid1, uuid2])))
userConversationUserUuids(convs) ==
    LET pairs == userConversationPairs(convs)
    IN Dedup(Flatten([i \in 1..Len(pairs) |->
                        <<pairs[i].userUuid1, pairs[i].userUuid2>>]))

\* route.ts:67  where: { uuid: { in: groupEngagementUuids } }
GroupEngagementRows(convs) ==
    {e \in Range(dbEngagements) : e.uuid \in Range(groupEngagementUuids(convs))}

\* route.ts:93  the users_engagements of one engagement, with each member's
\* roles and, for a student, the guardian_students rows that name it
UsersEngagementsOf(engagementUuid) ==
    LET rows == FilterIdx(dbUsersEngagements,
                          {i \in 1..Len(dbUsersEngagements) :
                             dbUsersEngagements[i].engagementUuid = engagementUuid})
    IN [i \in 1..Len(rows) |->
          LET user == CHOOSE u \in dbUsers : u.uuid = rows[i].userUuid
              links == {gs \in dbGuardianStudents : gs.studentUuid = user.uuid}
              order == CHOOSE f \in Perms(links) : TRUE
          IN [userUuid |-> rows[i].userUuid,
              users |-> [uuid |-> user.uuid,
                         roles |-> user.roles,
                         guardian_students_guardian_students_studentUuidTousers |->
                             [k \in 1..Len(order) |->
                                [guardianUuid |-> order[k].guardianUuid]]]]]

\* route.ts:80  where: { users_engagements: { some: { userUuid: { in: ... } } } }
UserEngagementRows(convs) ==
    LET wanted == Range(userConversationUserUuids(convs))
        hit == {e \in Range(dbEngagements) :
                  \E i \in 1..Len(dbUsersEngagements) :
                     /\ dbUsersEngagements[i].engagementUuid = e.uuid
                     /\ dbUsersEngagements[i].userUuid \in wanted}
    IN {[uuid |-> e.uuid, title |-> e.title,
         users_engagements |-> UsersEngagementsOf(e.uuid)] : e \in hit}

----------------------------------------------------------------------------
(* The pair lookup table, route.ts:118-167 *)

\* route.ts:147  `${a}_${b}`
LookupKey(a, b) == a \o <<"_">> \o b

\* faulty variant of mentors: every member counts, whatever its roles
mentorsOfAnyRole(engagement) ==
    LET ues == engagement.users_engagements
    IN [i \in 1..Len(ues) |-> ues[i].users.uuid]

\* route.ts:127-129  mentors, in member order
mentors(engagement) ==
    LET ues == engagement.users_engagements
        keep == FilterIdx(ues, {i \in 1..Len(ues) : "mentor" \in ues[i].users.roles})
    IN [i \in 1..Len(keep) |-> keep[i].users.uuid]

\* faulty variant of students: every member counts, whatever its roles
studentsOfAnyRole(engagement) ==
    LET ues == engagement.users_engagements
    IN [i \in 1..Len(ues) |-> ues[i].users.uuid]

\* route.ts:130-131  students, in member order
students(engagement) ==
    LET ues == engagement.users_engagements
        keep == FilterIdx(ues, {i \in 1..Len(ues) : "student" \in ues[i].users.roles})
    IN [i \in 1..Len(keep) |-> keep[i].users.uuid]

\* route.ts:123,132-139  the guardians Set, in insertion order: the linked
\* guardians of each student member, and each member with the guardian role
guardians(engagement) ==
    LET ues == engagement.users_engagements
        added == [i \in 1..Len(ues) |->
                    LET user == ues[i].users
                        gs == user.guardian_students_guardian_students_studentUuidTousers
                    IN (IF "student" \in user.roles
                        THEN [k \in 1..Len(gs) |-> gs[k].guardianUuid]
                        ELSE <<>>)
                       \o (IF "guardian" \in user.roles THEN <<user.uuid>> ELSE <<>>)]
    IN Dedup(Flatten(added))

\* route.ts:143
allParticipants(engagement) ==
    mentors(engagement) \o students(engagement) \o guardians(engagement)

\* faulty variant of pushesOf: only the key `${a}_${b}` is written
pushesOfOneWay(engagement) ==
    LET ap == allParticipants(engagement)
        eng == [uuid |-> engagement.uuid, title |-> engagement.title]
    IN Flatten([i \in 1..Len(ap) |->
          [d \in 1..(Len(ap) - i) |->
             [key |-> LookupKey(ap[i], ap[i + d]), eng |-> eng]]])

\* route.ts:145-166  for (i) for (j = i + 1): the pushes of one engagement,
\* in the order the loops make them, each with the key it goes under
pushesOf(engagement) ==
    LET ap == allParticipants(engagement)
        eng == [uuid |-> engagement.uuid, title |-> engagement.title]
    IN Flatten([i \in 1..Len(ap) |->
          Flatten([d \in 1..(Len(ap) - i) |->
             <<[key |-> LookupKey(ap[i], ap[i + d]), eng |-> eng],
               [key |-> LookupKey(ap[i + d], ap[i]), eng |-> eng]>>])])

\* route.ts:118-167  the Map after userEngagementsData.forEach(...): a key
\* exists once something was pushed under it (route.ts:150-155), and holds
\* what was pushed under it, in push order (route.ts:157-164)
userEngagementLookup(data) ==
    LET all == Flatten([e \in 1..Len(data) |-> pushesOf(data[e])])
    IN [k \in {all[n].key : n \in 1..Len(all)} |->
          LET Under(push) == push.key = k
              under == SelectSeq(all, Under)
          IN [n \in 1..Len(under) |-> under[n].eng]]

\* route.ts:170  new Map(users.map(user => [user.uuid, user]))
userMap(us) == [id \in {u.uuid : u \in Range(us)} |->
                  LET last == CHOOSE i \in 1..Len(us) :
                                 /\ us[i].uuid = id
                                 /\ \A k \in (i + 1)..Len(us) : us[k].uuid # id
                  IN us[last]]

\* route.ts:171  new Map(groupEngagements.map(eng => [eng.uuid, eng]))
groupEngagementMap(engs) == [id \in {e.uuid : e \in Range(engs)} |->
                               LET last == CHOOSE i \in 1..Len(engs) :
                                              /\ engs[i].uuid = id
                                              /\ \A k \in (i + 1)..Len(engs) : engs[k].uuid # id
                               IN engs[last]]

\* map.get(key) || null
MapGet(map, key) == IF key \in DOMAIN map THEN Some(map[key]) ELSE Null

----------------------------------------------------------------------------
(* route.ts:174-215  one conversation of conversationsWithDetails *)

\* faulty variant of GroupBranch: a found engagement is also listed in engagements
GroupBranchListing(conversation, geMap) ==
    LET match == GroupMatch(conversation.cometConversationId)
    IN IF match # Null
       THEN <<Some(Get(match)), MapGet(geMap, Get(match)),
              IF Get(match) \in DOMAIN geMap THEN Some(<<geMap[Get(match)]>>) ELSE Null>>
       ELSE <<Null, Null, Null>>

\* faulty variant of GroupBranch: engagementUuid is set only for a found engagement
GroupBranchFoundOnly(conversation, geMap) ==
    LET match == GroupMatch(conversation.cometConversationId)
    IN IF match # Null /\ Get(match) \in DOMAIN geMap
       THEN <<Some(Get(match)), MapGet(geMap, Get(match)), Null>>
       ELSE <<Null, Null, Null>>

\* route.ts:179-184  the group branch: <<engagementUuid, engagement, engagements>>
GroupBranch(conversation, geMap) ==
    LET match == GroupMatch(conversation.cometConversationId)
    IN IF match # Null
       THEN <<Some(Get(match)), MapGet(geMap, Get(match)), Null>>
       ELSE <<Null, Null, Null>>

\* faulty variant of UserBranch: the first of several engagements is taken
UserBranchFirstOfMany(conversation, lookup) ==
    LET match == PairMatch(conversation.cometConversationId)
    IN IF match # Null
       THEN LET lookupKey == LookupKey(Get(match).userUuid1, Get(match).userUuid2)
                found == MapGet(lookup, lookupKey)
                engagements == IF found = Null THEN <<>> ELSE Get(found)
            IN IF Len(engagements) >= 1
               THEN <<Some(engagements[1].uuid), Some(engagements[1]), Some(engagements)>>
               ELSE <<Null, Null, Some(engagements)>>
       ELSE <<Null, Null, Null>>

\* route.ts:185-202  the user branch: <<engagementUuid, engagement, engagements>>
UserBranch(conversation, lookup) ==
    LET match == PairMatch(conversation.cometConversationId)
    IN IF match # Null
       THEN LET lookupKey == LookupKey(Get(match).userUuid1, Get(match).userUuid2)
                found == MapGet(lookup, lookupKey)
                engagements == IF found = Null THEN <<>> ELSE Get(found)
            IN IF Len(engagements) = 1
               THEN <<Some(engagements[1].uuid), Some(engagements[1]), Some(engagements)>>
               ELSE <<Null, Null, Some(engagements)>>
       ELSE <<Null, Null, Null>>

\* faulty variant of WithDetails: the branch is chosen by the identifier alone
WithDetailsIgnoringType(conversation, lookup, geMap, uMap) ==
    LET r == IF GroupMatch(conversation.cometConversationId) # Null
             THEN GroupBranch(conversation, geMap)
             ELSE UserBranch(conversation, lookup)
    IN [uuid |-> conversation.uuid,
        userUuids |-> conversation.userUuids,
        updatedAt |-> conversation.updatedAt,
        cometConversationId |-> conversation.cometConversationId,
        cometConversationType |-> conversation.cometConversationType,
        engagementUuid |-> r[1],
        engagement |-> r[2],
        engagements |-> IF r[3] = Null THEN <<>> ELSE Get(r[3]),
        users |-> [i \in 1..Len(conversation.userUuids) |->
                     [uuid |-> conversation.userUuids[i],
                      details |-> MapGet(uMap, conversation.userUuids[i])]]]

\* route.ts:174-215
WithDetails(conversation, lookup, geMap, uMap) ==
    LET r == IF conversation.cometConversationType = "group"
             THEN GroupBranch(conversation, geMap)
             ELSE IF conversation.cometConversationType = "user"
             THEN UserBranch(conversation, lookup)
             ELSE <<Null, Null, Null>>
    IN [uuid |-> conversation.uuid,
        userUuids |-> conversation.userUuids,
        updatedAt |-> conversation.updatedAt,
        cometConversationId |-> conversation.cometConversationId,
        cometConversationType |-> conversation.cometConversationType,
        engagementUuid |-> r[1],
        engagement |-> r[2],
        engagements |-> IF r[3] = Null THEN <<>> ELSE Get(r[3]),
        users |-> [i \in 1..Len(conversation.userUuids) |->
                     [uuid |-> conversation.userUuids[i],
                      details |-> MapGet(uMap, conversation.userUuids[i])]]]

conversationsWithDetails(convs, us, gEngs, data) ==
    LET lookup == userEngagementLookup(data)
        geMap == groupEngagementMap(gEngs)
        uMap == userMap(us)
    IN [i \in 1..Len(convs) |-> WithDetails(convs[i], lookup, geMap, uMap)]

----------------------------------------------------------------------------
(* GET /api/conversations, route.ts:6-222: one action per await.  The      *)
(* handler's locals go out of scope when it returns.                       *)

SetToSeq(S) == CHOOSE f \in Perms(S) : TRUE

\* route.ts:8-20
FindConversations ==
    /\ pc = "findConversations"
    /\ conversations' = SortByUpdatedAtDesc(dbConversations)
    /\ pc' = "findUsers"
    /\ UNCHANGED <<dbVars, dashboardVars, pageVars, messageVars, users, groupEngagements, response>>

\* route.ts:23-41
FindUsers ==
    /\ pc = "findUsers"
    /\ users' = SetToSeq({u \in dbUsers : u.uuid \in Range(allUserUuids(conversations))})
    /\ pc' = "findGroupEngagements"
    /\ UNCHANGED <<dbVars, dashboardVars, pageVars, messageVars, conversations, groupEngagements, response>>

\* route.ts:44-77
FindGroupEngagements ==
    /\ pc = "findGroupEngagements"
    /\ groupEngagements' = SetToSeq(GroupEngagementRows(conversations))
    /\ pc' = "findUserEngagements"
    /\ UNCHANGED <<dbVars, dashboardVars, pageVars, messageVars, conversations, users, response>>

\* route.ts:80-217: the last query (its rows come back in an order the store
\* chooses) and the synchronous rest of the handler
FindUserEngagements ==
    /\ pc = "findUserEngagements"
    /\ \E userEngagementsData \in Perms(UserEngagementRows(conversations)) :
          response' = Some([status |-> 200,
                            body |-> conversationsWithDetails(
                                conversations, users, groupEngagements,
                                userEngagementsData)])
    /\ pc' = "done"
    /\ conversations' = <<>>
    /\ users' = <<>>
    /\ groupEngagements' = <<>>
    /\ UNCHANGED <<dbVars, dashboardVars, pageVars, messageVars>>

\* route.ts:218-221: a rejected query lands in the catch block
QueryFails ==
    /\ pc \in {"findConversations", "findUsers", "findGroupEngagements",
               "findUserEngagements"}
    /\ response' = Some([status |-> 500,
                         body |-> [error |-> "Failed to fetch conversations"]])
    /\ pc' = "error"
    /\ conversations' = <<>>
    /\ users' = <<>>
    /\ groupEngagements' = <<>>
    /\ UNCHANGED <<dbVars, dashboardVars, pageVars, messageVars>>

Next ==
    \/ FindConversations
    \/ FindUsers
    \/ FindGroupEngagements
    \/ FindUserEngagements
    \/ QueryFails

----------------------------------------------------------------------------
(* The stores and requests the handler is run on *)

U1 == MkUuid("1")
U2 == MkUuid("2")
U3 == MkUuid("3")
E1 == MkUuid("a")
E2 == MkUuid("b")
E3 == MkUuid("c")

UserUuids == {U1, U2, U3}

RoleSets == {{"mentor"}, {"student"}, {"guardian"}, {"mentor", "student"}, {"admin"}}

\* a pair conversation id, as the chat service writes it
PairId(a, b) == a \o UserSep \o b

\* a group conversation id, as the chat service writes it
GroupId(e) == GroupPrefix \o e

\* a Record<string, T> without keys
EmptyRecord == [key \in {} |-> Null]

\* page.tsx:73-89  the state of the page when it is mounted
DashboardMounted ==
    /\ userSearch = <<>>
    /\ pageConversations = <<>>
    /\ loading = FALSE
    /\ selectedConversation = Null
    /\ pageMessages = <<>>
    /\ messagesCache = EmptyRecord
    /\ loadingMessages = FALSE
    /\ conversationMessageCounts = EmptyRecord
    /\ conversationLatestDates = EmptyRecord
    /\ searchRequests = <<>>
    /\ messageRequests = <<>>
    /\ preloadRequests = <<>>
    /\ latestSearchResult = Null

HandlerStart ==
    /\ DashboardMounted
    /\ pc = "findConversations"
    /\ dbMessages = {}
    /\ conversationUuid = <<>>
    /\ fetchedMessages = <<>>
    /\ allMessages = <<>>
    /\ conversations = <<>>
    /\ users = <<>>
    /\ groupEngagements = <<>>
    /\ response = Null
    /\ cachedMessages = <<>>
    /\ responseTimeData = Null

\* the conversation rows of a request: the k-th row is the k-th most recent
ConversationRows(f) ==
    [k \in 1..Len(f) |->
        [uuid |-> <<"c", k>>,
         userUuids |-> f[k].userUuids,
         updatedAt |-> Len(f) - k,
         cometConversationId |-> f[k].id,
         cometConversationType |-> f[k].type]]

\* users_engagements rows: the members of E1, then those of E2
MemberRows(m1, m2) ==
    [i \in 1..Cardinality(m1) |-> [engagementUuid |-> E1, userUuid |-> SetToSeq(m1)[i]]]
    \o [i \in 1..Cardinality(m2) |-> [engagementUuid |-> E2, userUuid |-> SetToSeq(m2)[i]]]

PairCands ==
    {[type |-> "user", id |-> PairId(p[1], p[2]), userUuids |-> <<p[1], p[2]>>] :
        p \in {<<U1, U2>>, <<U2, U1>>, <<U2, U3>>}}

\* Pair conversations between U1, U2 and U3 over a store of two engagements:
\* U1 holds any role set, U2 a single role or none of the three, U3 is a
\* student; U1 and U2 may both be linked to U3 as its guardians.
Init ==
    /\ HandlerStart
    /\ dbEngagements = <<[uuid |-> E1, title |-> "Alpha"], [uuid |-> E2, title |-> "Beta"]>>
    /\ \E r1 \in RoleSets, r2 \in {{"student"}, {"guardian"}, {"admin"}} :
          dbUsers = {[uuid |-> U1, roles |-> r1], [uuid |-> U2, roles |-> r2],
                     [uuid |-> U3, roles |-> {"student"}]}
    /\ \E m1 \in SUBSET UserUuids, m2 \in {{}, {U3}, UserUuids} :
          dbUsersEngagements = MemberRows(m1, m2)
    /\ \E gs \in {{}, {<<U1, U3>>, <<U2, U3>>}} :
          dbGuardianStudents = {[guardianUuid |-> l[1], studentUuid |-> l[2]] : l \in gs}
    /\ \E n \in 0..MaxConvs : \E f \in [1..n -> PairCands] :
          dbConversations = ConversationRows(f)

Spec == Init /\ [][Next]_vars

GroupCands ==
    {[type |-> "group", id |-> GroupId(E1), userUuids |-> <<U1, U2>>],
     [type |-> "group", id |-> GroupId(E3), userUuids |-> <<U1, U2>>],
     [type |-> "group", id |-> <<"x", "_">> \o GroupId(E2), userUuids |-> <<U1>>],
     [type |-> "group", id |-> GroupId(E1) \o <<"\n", "x">>, userUuids |-> <<U1, U2>>],
     [type |-> "group", id |-> <<"g", "r", "o", "u", "p", "-">> \o E1, userUuids |-> <<U1, U2>>],
     [type |-> "group", id |-> PairId(U1, U2), userUuids |-> <<U1, U2>>],
     [type |-> "user", id |-> GroupId(E1), userUuids |-> <<U1, U2>>],
     [type |-> "user", id |-> U1 \o <<"_", "u", "s", "r", "_">> \o U2, userUuids |-> <<U1, U2>>],
     [type |-> "user", id |-> PairId(U1, U2), userUuids |-> <<U1, U2>>],
     [type |-> "direct", id |-> PairId(U1, U2), userUuids |-> <<U1, U2>>]}

\* Group conversations, malformed identifiers and mismatched types over a
\* store that holds none, one or both of the engagements E1 and E2 (never
\* E3); U1 is a mentor and U2 a student, both members of E1 when it exists
\* and both or neither members of E2 when it exists.
InitGroup ==
    /\ HandlerStart
    /\ dbEngagements \in {<<>>,
                          <<[uuid |-> E1, title |-> "Alpha"]>>,
                          <<[uuid |-> E1, title |-> "Alpha"], [uuid |-> E2, title |-> "Beta"]>>}
    /\ dbUsers = {[uuid |-> U1, roles |-> {"mentor"}], [uuid |-> U2, roles |-> {"student"}]}
    /\ \E m2 \in (IF Len(dbEngagements) = 2 THEN {{}, {U1, U2}} ELSE {{}}) :
          dbUsersEngagements = IF dbEngagements = <<>> THEN <<>>
                               ELSE MemberRows({U1, U2}, m2)
    /\ dbGuardianStudents = {}
    /\ \E n \in 0..MaxConvs : \E f \in [1..n -> GroupCands] :
          dbConversations = ConversationRows(f)

SpecGroup == InitGroup /\ [][Next]_vars

----------------------------------------------------------------------------
(* GET /api/messages/[conversationUuid], src/unnamed/part_000:6-80, and    *)
(* GET /api/conversations/latest-messages, latest-messages/route.ts:6-83:  *)
(* one action per await.                                                   *)

\* the orders in which a query with orderBy createdAt asc can return rows
SortedAsc(rows) ==
    {f \in Perms(rows) :
        \A i \in 1..Len(f), j \in 1..Len(f) : i < j => f[i].createdAt <= f[j].createdAt}

\* the orders in which a query with orderBy createdAt desc can return rows
SortedDesc(rows) ==
    {f \in Perms(rows) :
        \A i \in 1..Len(f), j \in 1..Len(f) : i < j => f[i].createdAt >= f[j].createdAt}

\* part_000:19-22  where: { conversationUuid, deletedAt: null }
MessageRowsOf(uuid) ==
    {m \in dbMessages : m.conversationUuid = uuid /\ m.deletedAt = Null}

\* part_000:23-36  the selected columns
SelectMessage(m) ==
    [uuid |-> m.uuid, senderUuid |-> m.senderUuid, createdAt |-> m.createdAt]

\* part_000:43  Array.from(new Set(messages.map(msg => msg.senderUuid)))
senderUuids(msgs) == Dedup([i \in 1..Len(msgs) |-> msgs[i].senderUuid])

\* part_000:46-61 and latest-messages/route.ts:49-59  where: { uuid: { in: senderUuids } }
SenderRows(uuids) == SetToSeq({u \in dbUsers : u.uuid \in Range(uuids)})

\* part_000:64 and latest-messages/route.ts:62  new Map(senders.map(s => [s.uuid, s]))
senderMap(senders) == [id \in {sender.uuid : sender \in Range(senders)} |->
                         LET last == CHOOSE i \in 1..Len(senders) :
                                        /\ senders[i].uuid = id
                                        /\ \A k \in (i + 1)..Len(senders) : senders[k].uuid # id
                         IN senders[last]]

\* faulty variant of messagesWithSenders: a sender that was not found is
\* made up from the message's senderUuid
messagesWithMadeUpSenders(msgs, senders) ==
    [i \in 1..Len(msgs) |->
        [uuid |-> msgs[i].uuid,
         senderUuid |-> msgs[i].senderUuid,
         createdAt |-> msgs[i].createdAt,
         sender |-> IF msgs[i].senderUuid \in DOMAIN senderMap(senders)
                    THEN Some(senderMap(senders)[msgs[i].senderUuid])
                    ELSE Some([uuid |-> msgs[i].senderUuid, roles |-> {}])]]

\* part_000:67-70  { ...message, sender: senderMap.get(message.senderUuid) || null }
messagesWithSenders(msgs, senders) ==
    [i \in 1..Len(msgs) |->
        [uuid |-> msgs[i].uuid,
         senderUuid |-> msgs[i].senderUuid,
         createdAt |-> msgs[i].createdAt,
         sender |-> MapGet(senderMap(senders), msgs[i].senderUuid)]]

\* part_000:11-15  await params; an empty conversationUuid is answered with 400
ReadParams ==
    /\ pc = "messages.params"
    /\ IF conversationUuid = <<>>
       THEN /\ response' = Some([status |-> 400,
                                 body |-> [error |-> "Conversation UUID is required"]])
            /\ pc' = "messages.done"
       ELSE /\ response' = response
            /\ pc' = "messages.findMessages"
    /\ UNCHANGED <<dbVars, dashboardVars, pageVars, messageVars, conversations, users, groupEngagements>>

\* faulty variant of FindMessages: the rows come back in the order the store holds them
FindMessagesUnordered ==
    /\ pc = "messages.findMessages"
    /\ \E rows \in Perms(MessageRowsOf(conversationUuid)) :
          fetchedMessages' = [i \in 1..Len(rows) |-> SelectMessage(rows[i])]
    /\ pc' = "messages.findSenders"
    /\ UNCHANGED <<dbVars, dashboardVars, pageVars, conversationUuid, allMessages, conversations,
                   users, groupEngagements, response>>

\* part_000:18-40
FindMessages ==
    /\ pc = "messages.findMessages"
    /\ \E rows \in SortedAsc(MessageRowsOf(conversationUuid)) :
          fetchedMessages' = [i \in 1..Len(rows) |-> SelectMessage(rows[i])]
    /\ pc' = "messages.findSenders"
    /\ UNCHANGED <<dbVars, dashboardVars, pageVars, conversationUuid, allMessages, conversations,
                   users, groupEngagements, response>>

\* part_000:43-75  the last query and the synchronous rest of the handler
FindSenders ==
    /\ pc = "messages.findSenders"
    /\ response' = Some([status |-> 200,
                         body |-> [messages |-> messagesWithSenders(
                                       fetchedMessages,
                                       SenderRows(senderUuids(fetchedMessages))),
                                   totalCount |-> Len(fetchedMessages)]])
    /\ fetchedMessages' = <<>>
    /\ pc' = "messages.done"
    /\ UNCHANGED <<dbVars, dashboardVars, pageVars, conversationUuid, allMessages, conversations,
                   users, groupEngagements>>

\* faulty variant of MessagesQueryFails: when the senders query fails the
\* messages are returned without senders
MessagesQueryFailsPartial ==
    /\ pc \in {"messages.findMessages", "messages.findSenders"}
    /\ response' = IF pc = "messages.findSenders"
                   THEN Some([status |-> 200,
                              body |-> [messages |-> messagesWithSenders(fetchedMessages, <<>>),
                                        totalCount |-> Len(fetchedMessages)]])
                   ELSE Some([status |-> 500,
                              body |-> [error |-> "Failed to fetch messages"]])
    /\ fetchedMessages' = <<>>
    /\ pc' = "messages.error"
    /\ UNCHANGED <<dbVars, dashboardVars, pageVars, conversationUuid, allMessages, conversations,
                   users, groupEngagements>>

\* part_000:76-79  a rejected query lands in the catch block
MessagesQueryFails ==
    /\ pc \in {"messages.findMessages", "messages.findSenders"}
    /\ response' = Some([status |-> 500,
                         body |-> [error |-> "Failed to fetch messages"]])
    /\ fetchedMessages' = <<>>
    /\ pc' = "messages.error"
    /\ UNCHANGED <<dbVars, dashboardVars, pageVars, conversationUuid, allMessages, conversations,
                   users, groupEngagements>>

NextMessages ==
    \/ ReadParams
    \/ FindMessages
    \/ FindSenders
    \/ MessagesQueryFails

\* latest-messages/route.ts:9-13  select: { uuid: true }
LatestFindConversations ==
    /\ pc = "latest.findConversations"
    /\ conversations' = [i \in 1..Len(dbConversations) |-> [uuid |-> dbConversations[i].uuid]]
    /\ pc' = "latest.findMessages"
    /\ UNCHANGED <<dbVars, dashboardVars, pageVars, messageVars, users, groupEngagements, response>>

\* latest-messages/route.ts:18-23  where: { conversationUuid: { in: ... }, deletedAt: null }
LatestMessageRows(convs) ==
    {m \in dbMessages :
        /\ m.conversationUuid \in {convs[i].uuid : i \in 1..Len(convs)}
        /\ m.deletedAt = Null}

\* latest-messages/route.ts:17-33
LatestFindMessages ==
    /\ pc = "latest.findMessages"
    /\ \E rows \in SortedDesc(LatestMessageRows(conversations)) :
          allMessages' = [i \in 1..Len(rows) |->
                             [uuid |-> rows[i].uuid,
                              conversationUuid |-> rows[i].conversationUuid,
                              senderUuid |-> rows[i].senderUuid,
                              createdAt |-> rows[i].createdAt]]
    /\ pc' = "latest.findSenders"
    /\ UNCHANGED <<dbVars, dashboardVars, pageVars, conversationUuid, fetchedMessages, conversations,
                   users, groupEngagements, response>>

\* faulty variant of latestByConversation: a later message of the same
\* conversation overwrites the entry
lastSeenByConversation(msgs) ==
    FilterIdx(msgs, {i \in 1..Len(msgs) :
                        \A k \in (i + 1)..Len(msgs) :
                            msgs[k].conversationUuid # msgs[i].conversationUuid})

\* latest-messages/route.ts:36-41  the Map's values in insertion order: the
\* first message seen of each conversation
latestByConversation(msgs) ==
    FilterIdx(msgs, {i \in 1..Len(msgs) :
                        \A k \in 1..(i - 1) :
                            msgs[k].conversationUuid # msgs[i].conversationUuid})

\* latest-messages/route.ts:65-76
conversationLatestMessages(latest, senders) ==
    [i \in 1..Len(latest) |->
        [conversationUuid |-> latest[i].conversationUuid,
         latestMessage |-> [uuid |-> latest[i].uuid,
                            senderUuid |-> latest[i].senderUuid,
                            createdAt |-> latest[i].createdAt,
                            sender |-> MapGet(senderMap(senders), latest[i].senderUuid)]]]

\* latest-messages/route.ts:36-78  the last query and the synchronous rest
LatestFindSenders ==
    /\ pc = "latest.findSenders"
    /\ LET latest == latestByConversation(allMessages)
       IN response' = Some([status |-> 200,
                            body |-> conversationLatestMessages(
                                         latest, SenderRows(senderUuids(latest)))])
    /\ conversations' = <<>>
    /\ allMessages' = <<>>
    /\ pc' = "latest.done"
    /\ UNCHANGED <<dbVars, dashboardVars, pageVars, conversationUuid, fetchedMessages, users,
                   groupEngagements>>

\* latest-messages/route.ts:79-82  a rejected query lands in the catch block
LatestQueryFails ==
    /\ pc \in {"latest.findConversations", "latest.findMessages", "latest.findSenders"}
    /\ response' = Some([status |-> 500,
                         body |-> [error |-> "Failed to fetch latest messages"]])
    /\ conversations' = <<>>
    /\ allMessages' = <<>>
    /\ pc' = "latest.error"
    /\ UNCHANGED <<dbVars, dashboardVars, pageVars, conversationUuid, fetchedMessages, users,
                   groupEngagements>>

NextLatest ==
    \/ LatestFindConversations
    \/ LatestFindMessages
    \/ LatestFindSenders
    \/ LatestQueryFails

NextApi ==
    \/ Next
    \/ NextMessages
    \/ NextLatest

\* conversations whose participants include U3, of whom the store has no row
ApiCands ==
    {[type |-> "user", id |-> PairId(U1, U2), userUuids |-> <<U2, U1>>],
     [type |-> "group", id |-> GroupId(E1), userUuids |-> <<U1, U3, U2>>],
     [type |-> "group", id |-> GroupId(E1), userUuids |-> <<U3>>]}

\* the messages a store can hold: of the first or of the second
\* conversation, sent by a stored user or by U3, deleted or not
MessageKinds ==
    {[conversation |-> 1, senderUuid |-> U1, deleted |-> FALSE],
     [conversation |-> 1, senderUuid |-> U3, deleted |-> FALSE],
     [conversation |-> 1, senderUuid |-> U2, deleted |-> TRUE],
     [conversation |-> 2, senderUuid |-> U2, deleted |-> FALSE]}

\* the rows of prisma.messages for a set of <<kind, createdAt>>
MessageRows(S) ==
    LET order == SetToSeq(S)
    IN {[uuid |-> <<"m", i>>,
         conversationUuid |-> <<"c", order[i][1].conversation>>,
         senderUuid |-> order[i][1].senderUuid,
         createdAt |-> order[i][2],
         deletedAt |-> IF order[i][1].deleted THEN Some(order[i][2]) ELSE Null] :
           i \in 1..Len(order)}

\* The three handlers over a store with the users U1 (mentor) and U2
\* (student), both members of the engagement E1: the conversations route on
\* up to MaxConvs conversations; the messages route and the latest-messages
\* route on two conversations and up to MaxMsgs messages.
InitApi ==
    /\ DashboardMounted
    /\ dbUsers = {[uuid |-> U1, roles |-> {"mentor"}], [uuid |-> U2, roles |-> {"student"}]}
    /\ dbEngagements = <<[uuid |-> E1, title |-> "Alpha"]>>
    /\ dbUsersEngagements = MemberRows({U1, U2}, {})
    /\ dbGuardianStudents = {}
    /\ conversations = <<>>
    /\ users = <<>>
    /\ groupEngagements = <<>>
    /\ response = Null
    /\ fetchedMessages = <<>>
    /\ allMessages = <<>>
    /\ cachedMessages = <<>>
    /\ responseTimeData = Null
    /\ \/ /\ pc = "findConversations"
          /\ \E n \in 0..MaxConvs : \E f \in [1..n -> ApiCands] :
                dbConversations = ConversationRows(f)
          /\ dbMessages = {}
          /\ conversationUuid = <<>>
       \/ /\ pc \in {"messages.params", "latest.findConversations"}
          /\ dbConversations =
                ConversationRows(<<[type |-> "user", id |-> PairId(U1, U2), userUuids |-> <<U2, U1>>],
                                   [type |-> "group", id |-> GroupId(E1), userUuids |-> <<U1, U3, U2>>]>>)
          /\ \E S \in SUBSET (MessageKinds \X (0..MaxTime)) :
                /\ Cardinality(S) <= MaxMsgs
                /\ dbMessages = MessageRows(S)
          /\ IF pc = "messages.params"
             THEN conversationUuid \in {<<>>} \cup {c.uuid : c \in Range(dbConversations)}
             ELSE conversationUuid = <<>>

SpecApi == InitApi /\ [][NextApi]_vars

----------------------------------------------------------------------------
(* Vocabulary of the properties *)

Responded == pc = "done"

\* the conversations of a successful response
Body == Get(response).body

IsGroupConv(c) ==
    c.cometConversationType = "group" /\ GroupMatch(c.cometConversationId) # Null

IsPairConv(c) ==
    c.cometConversationType = "user" /\ PairMatch(c.cometConversationId) # Null

Fragment(c) == Get(GroupMatch(c.cometConversationId))

Stored(uuid) == \E e \in Range(dbEngagements) : e.uuid = uuid

StoredEngagement(uuid) == CHOOSE e \in Range(dbEngagements) : e.uuid = uuid

NoEngagement(c) ==
    c.engagementUuid = Null /\ c.engagement = Null /\ c.engagements = <<>>

----------------------------------------------------------------------------
(* Group conversations and unmatched identifiers *)

\* C1: a group conversation whose fragment is the uuid of a stored engagement
\* has engagementUuid equal to the fragment and engagement equal to the
\* stored engagement (uuid and title).
C1_GroupFound ==
    Responded =>
        \A i \in 1..Len(Body) :
            (IsGroupConv(Body[i]) /\ Stored(Fragment(Body[i]))) =>
                /\ Body[i].engagementUuid = Some(Fragment(Body[i]))
                /\ Body[i].engagement = Some(StoredEngagement(Fragment(Body[i])))

\* the fragment behind a junk prefix and the fragment before a line break
\* are both resolved
C1_Witness ==
    /\ Responded
    /\ \E i \in 1..Len(Body) :
          /\ Body[i].cometConversationId = <<"x", "_">> \o GroupId(E2)
          /\ Body[i].engagement = Some([uuid |-> E2, title |-> "Beta"])
    /\ \E i \in 1..Len(Body) :
          /\ Body[i].cometConversationId = GroupId(E1) \o <<"\n", "x">>
          /\ Body[i].engagementUuid = Some(E1)

\* C6: a conversation that is neither a group conversation matching the
\* group pattern nor a user conversation matching the pair pattern is
\* returned, in a successful response, with no engagement at all.
C6_Unmatched ==
    Responded =>
        /\ Get(response).status = 200
        /\ Len(Body) = Len(dbConversations)
        /\ \A i \in 1..Len(Body) :
              (~IsGroupConv(Body[i]) /\ ~IsPairConv(Body[i])) => NoEngagement(Body[i])

\* a request holding a user conversation with a group identifier and a
\* group conversation with a pair identifier, next to a resolved one
C6_Witness ==
    /\ Responded
    /\ \E i \in 1..Len(Body) :
          /\ Body[i].cometConversationType = "user"
          /\ Body[i].cometConversationId = GroupId(E1)
          /\ Stored(E1)
          /\ NoEngagement(Body[i])
    /\ \E i \in 1..Len(Body) :
          /\ Body[i].cometConversationType \in {"group", "direct"}
          /\ Body[i].cometConversationId = PairId(U1, U2)
          /\ NoEngagement(Body[i])

\* C7 as stated: the stored engagement is the engagement field and the sole
\* entry of the engagements list.
C7_GroupFoundListed ==
    Responded =>
        \A i \in 1..Len(Body) :
            (IsGroupConv(Body[i]) /\ Stored(Fragment(Body[i]))) =>
                /\ Body[i].engagement = Some(StoredEngagement(Fragment(Body[i])))
                /\ Body[i].engagements = <<StoredEngagement(Fragment(Body[i]))>>

\* C7 amended: the stored engagement is the engagement field, and the
\* engagements list of a group conversation is empty.
C7_GroupFoundNotListed ==
    Responded =>
        \A i \in 1..Len(Body) :
            (IsGroupConv(Body[i]) /\ Stored(Fragment(Body[i]))) =>
                /\ Body[i].engagement = Some(StoredEngagement(Fragment(Body[i])))
                /\ Body[i].engagements = <<>>

C7_Witness ==
    /\ Responded
    /\ \E i \in 1..Len(Body) :
          /\ Body[i].cometConversationId = GroupId(E1)
          /\ Body[i].cometConversationType = "group"
          /\ Body[i].engagement = Some([uuid |-> E1, title |-> "Alpha"])
          /\ Body[i].engagements = <<>>

\* C8 as stated: a group conversation whose fragment is no stored engagement
\* has engagementUuid = null, engagement = null and engagements = [].
C8_GroupNotFoundAllNull ==
    Responded =>
        \A i \in 1..Len(Body) :
            (IsGroupConv(Body[i]) /\ ~Stored(Fragment(Body[i]))) => NoEngagement(Body[i])

\* C8 amended: such a conversation has engagement = null and
\* engagements = [], and engagementUuid is the fragment.
C8_GroupNotFoundKeepsUuid ==
    Responded =>
        \A i \in 1..Len(Body) :
            (IsGroupConv(Body[i]) /\ ~Stored(Fragment(Body[i]))) =>
                /\ Body[i].engagementUuid = Some(Fragment(Body[i]))
                /\ Body[i].engagement = Null
                /\ Body[i].engagements = <<>>

\* the fragment E3 is never stored, while another group conversation of the
\* same request is resolved
C8_Witness ==
    /\ Responded
    /\ \E i \in 1..Len(Body) :
          /\ Body[i].cometConversationId = GroupId(E3)
          /\ Body[i].cometConversationType = "group"
          /\ Body[i].engagementUuid = Some(E3)
          /\ Body[i].engagement = Null
    /\ \E i \in 1..Len(Body) : Body[i].engagement # Null

----------------------------------------------------------------------------
(* Pair conversations *)

Members(engagementUuid) ==
    {dbUsersEngagements[i].userUuid : i \in
        {k \in 1..Len(dbUsersEngagements) :
            dbUsersEngagements[k].engagementUuid = engagementUuid}}

RolesOf(userUuid) == (CHOOSE u \in dbUsers : u.uuid = userUuid).roles

StudentMembers(engagementUuid) ==
    {u \in Members(engagementUuid) : "student" \in RolesOf(u)}

\* guardians linked to a student member of the engagement
DerivedGuardians(engagementUuid) ==
    {gs.guardianUuid : gs \in {l \in dbGuardianStudents :
                                  l.studentUuid \in StudentMembers(engagementUuid)}}

\* the eligible participants of an engagement: its mentor and student
\* members, the guardians linked to a student member, and its members with
\* the guardian role
Eligible(engagementUuid) ==
    {u \in Members(engagementUuid) :
        RolesOf(u) \cap {"mentor", "student", "guardian"} # {}}
    \cup DerivedGuardians(engagementUuid)

\* the stored engagements that connect a and b
Connecting(a, b) ==
    {e \in Range(dbEngagements) : a \in Eligible(e.uuid) /\ b \in Eligible(e.uuid)}

\* the embedded pair of a pair conversation, Null for any other conversation
PairOf(c) ==
    IF c.cometConversationType = "user" THEN PairMatch(c.cometConversationId) ELSE Null

\* C2 as stated: a pair conversation whose pair is in the eligible set of
\* exactly one engagement has that engagement as engagement, its uuid as
\* engagementUuid and exactly one entry in engagements.
C2_ExactlyOne ==
    Responded =>
        \A i \in 1..Len(Body) :
            LET pair == PairOf(Body[i])
                connecting == Connecting(Get(pair).userUuid1, Get(pair).userUuid2)
            IN (pair # Null /\ Cardinality(connecting) = 1) =>
                  /\ Body[i].engagement = Some(CHOOSE e \in connecting : TRUE)
                  /\ Body[i].engagementUuid = Some((CHOOSE e \in connecting : TRUE).uuid)
                  /\ Len(Body[i].engagements) = 1

\* C3 as stated: a pair conversation whose pair is connected by two or more
\* engagements has engagement = null and engagementUuid = null, and
\* engagements lists every connecting engagement.
C3_Ambiguous ==
    Responded =>
        \A i \in 1..Len(Body) :
            LET pair == PairOf(Body[i])
                connecting == Connecting(Get(pair).userUuid1, Get(pair).userUuid2)
            IN (pair # Null /\ Cardinality(connecting) >= 2) =>
                  /\ Body[i].engagement = Null
                  /\ Body[i].engagementUuid = Null
                  /\ connecting \subseteq Range(Body[i].engagements)

\* C4: a pair conversation whose pair no engagement connects has
\* engagementUuid = null, engagement = null and engagements = [].
C4_NoneConnecting ==
    Responded =>
        \A i \in 1..Len(Body) :
            LET pair == PairOf(Body[i])
            IN (pair # Null
                /\ Connecting(Get(pair).userUuid1, Get(pair).userUuid2) = {}) =>
                  NoEngagement(Body[i])

\* U1 and U2 are both members of E1, U2 an eligible one, but U1 holds none
\* of the three roles and is nobody's guardian
C4_Witness ==
    /\ Responded
    /\ {U1, U2} \subseteq Members(E1)
    /\ U2 \in Eligible(E1)
    /\ RolesOf(U1) = {"admin"}
    /\ \E i \in 1..Len(Body) :
          /\ Body[i].cometConversationId = PairId(U1, U2)
          /\ Connecting(U1, U2) = {}
          /\ NoEngagement(Body[i])

\* C5 as stated: a guardian G linked to a student member of E, and any other
\* eligible participant X of E: a pair conversation embedding (G, X) lists E.
C5_GuardianDerivation ==
    Responded =>
        \A i \in 1..Len(Body) :
            LET pair == PairOf(Body[i])
            IN pair # Null =>
                  \A e \in Range(dbEngagements) :
                      (/\ Get(pair).userUuid1 \in DerivedGuardians(e.uuid)
                       /\ Get(pair).userUuid2 \in Eligible(e.uuid)
                       /\ Get(pair).userUuid2 # Get(pair).userUuid1) =>
                          e \in Range(Body[i].engagements)

----------------------------------------------------------------------------
(* The mentor response-time analyzer, utils/mentorResponseTime as the      *)
(* specification describes it (section 4.2); createdAt is in milliseconds. *)

\* the sender's role set includes mentor; a null sender has no roles
isMentor(message) ==
    message.sender # Null /\ "mentor" \in Get(message.sender).roles

\* faulty variant of precedingNonMentorIndex: only the message right before is tried
immediatelyPrecedingIndex(messages, i, j) ==
    IF j = i - 1 /\ j >= 1 /\ ~isMentor(messages[j]) THEN j ELSE 0

\* the backward scan from position j for the message paired with messages[i]:
\* the index of the nearest earlier non-mentor message, or 0
RECURSIVE precedingNonMentorIndex(_, _, _)
precedingNonMentorIndex(messages, i, j) ==
    IF j < 1 THEN 0
    ELSE IF ~isMentor(messages[j]) THEN j
    ELSE precedingNonMentorIndex(messages, i, j - 1)

\* faulty variant of responseSample: a latency of zero is kept
responseSampleNonNegative(messages, i) ==
    IF ~isMentor(messages[i]) THEN <<>>
    ELSE LET j == precedingNonMentorIndex(messages, i, i - 1)
         IN IF j = 0 THEN <<>>
            ELSE LET responseTimeMs == messages[i].createdAt - messages[j].createdAt
                 IN IF responseTimeMs >= 0
                    THEN <<[responseTimeMs |-> responseTimeMs,
                            mentorMessage |-> messages[i],
                            precedingNonMentorMessage |-> messages[j]]>>
                    ELSE <<>>

\* the sample of messages[i], if it is a mentor message with an earlier
\* non-mentor message and a strictly positive latency: <<sample>> or <<>>
responseSample(messages, i) ==
    IF ~isMentor(messages[i]) THEN <<>>
    ELSE LET j == precedingNonMentorIndex(messages, i, i - 1)
         IN IF j = 0 THEN <<>>
            ELSE LET responseTimeMs == messages[i].createdAt - messages[j].createdAt
                 IN IF responseTimeMs > 0
                    THEN <<[responseTimeMs |-> responseTimeMs,
                            mentorMessage |-> messages[i],
                            precedingNonMentorMessage |-> messages[j]]>>
                    ELSE <<>>

\* faulty variant of responseTimes: the samples of the latest mentor messages come first
responseTimesNewestFirst(messages) ==
    Flatten([i \in 1..Len(messages) |->
                responseSample(messages, Len(messages) + 1 - i)])

\* the samples, ordered by the position of the mentor message
responseTimes(messages) ==
    Flatten([i \in 1..Len(messages) |-> responseSample(messages, i)])

RECURSIVE SumMs(_)
SumMs(samples) ==
    IF samples = <<>> THEN 0
    ELSE samples[1].responseTimeMs + SumMs(Tail(samples))

\* faulty variant of calculateMentorAverageResponseTime: no sample gives a zero result
calculateWithZeroResult(messages) ==
    LET samples == responseTimes(messages)
    IN Some([averageTimeMs |-> [num |-> SumMs(samples), den |-> Len(samples)],
             responseCount |-> Len(samples),
             responseTimes |-> samples])

\* the result, null without a sample; averageTimeMs is the exact quotient
\* num / den
calculateMentorAverageResponseTime(messages) ==
    LET samples == responseTimes(messages)
    IN IF Len(samples) = 0 THEN Null
       ELSE Some([averageTimeMs |-> [num |-> SumMs(samples), den |-> Len(samples)],
                  responseCount |-> Len(samples),
                  responseTimes |-> samples])

\* page.tsx:594-624  the conversation card applies the analyzer to the
\* cached messages
Render ==
    /\ pc = "render"
    /\ responseTimeData' = calculateMentorAverageResponseTime(cachedMessages)
    /\ pc' = "rendered"
    /\ UNCHANGED <<dbVars, dashboardVars, handlerVars, messageVars, cachedMessages>>

NextAnalyzer == Render

Senders == {Null, Some([roles |-> {"mentor"}]), Some([roles |-> {"student"}]),
            Some([roles |-> {"mentor", "student"}])}

\* the messages of a list: f[k] is the createdAt and the sender of the k-th
MessageList(f) ==
    [k \in 1..Len(f) |-> [uuid |-> <<"m", k>>,
                          createdAt |-> f[k][1],
                          sender |-> f[k][2]]]

\* Message lists in any order of createdAt, the store being empty
InitAnalyzer ==
    /\ DashboardMounted
    /\ dbConversations = <<>>
    /\ dbUsers = {}
    /\ dbEngagements = <<>>
    /\ dbUsersEngagements = <<>>
    /\ dbGuardianStudents = {}
    /\ dbMessages = {}
    /\ conversations = <<>>
    /\ users = <<>>
    /\ groupEngagements = <<>>
    /\ response = Null
    /\ conversationUuid = <<>>
    /\ fetchedMessages = <<>>
    /\ allMessages = <<>>
    /\ pc = "render"
    /\ \E n \in 0..MaxMsgs : \E f \in [1..n -> (0..MaxTime) \X Senders] :
          cachedMessages = MessageList(f)
    /\ responseTimeData = Null

SpecAnalyzer == InitAnalyzer /\ [][NextAnalyzer]_vars

Rendered == pc = "rendered"

\* the nearest earlier non-mentor message of position i is at position j
NearestNonMentor(messages, i, j) ==
    /\ j \in 1..(i - 1)
    /\ ~isMentor(messages[j])
    /\ \A k \in (j + 1)..(i - 1) : isMentor(messages[k])

\* position i is a qualifying response
Qualifying(messages, i) ==
    /\ isMentor(messages[i])
    /\ \E j \in 1..(i - 1) :
          /\ NearestNonMentor(messages, i, j)
          /\ messages[i].createdAt - messages[j].createdAt > 0

\* C9: the analyzer returns null exactly for the lists without a qualifying
\* response (empty, no mentor message, no mentor message with an earlier
\* non-mentor message, every candidate latency non-positive), and a result
\* never has responseCount 0.
C9_NullIffNoResponse ==
    Rendered =>
        /\ (responseTimeData = Null) <=>
              ~\E i \in 1..Len(cachedMessages) : Qualifying(cachedMessages, i)
        /\ responseTimeData # Null => Get(responseTimeData).responseCount > 0

\* a mentor message after a non-mentor message, at the same time or earlier:
\* the only candidate latency is non-positive and the result is null
C9_Witness ==
    /\ Rendered
    /\ Len(cachedMessages) = 2
    /\ ~isMentor(cachedMessages[1])
    /\ isMentor(cachedMessages[2])
    /\ cachedMessages[2].createdAt <= cachedMessages[1].createdAt
    /\ responseTimeData = Null

\* C10: every sample pairs a mentor message with its nearest earlier
\* non-mentor message (a null sender is a non-mentor), and every mentor
\* message whose nearest earlier non-mentor message is strictly older has
\* such a sample: consecutive mentor replies share the non-mentor message.
C10_NearestPreceding ==
    (Rendered /\ responseTimeData # Null) =>
        LET samples == Get(responseTimeData).responseTimes
        IN /\ \A n \in 1..Len(samples) :
                 \E i \in 1..Len(cachedMessages), j \in 1..Len(cachedMessages) :
                    /\ samples[n].mentorMessage = cachedMessages[i]
                    /\ isMentor(cachedMessages[i])
                    /\ NearestNonMentor(cachedMessages, i, j)
                    /\ samples[n].precedingNonMentorMessage = cachedMessages[j]
           /\ \A i \in 1..Len(cachedMessages), j \in 1..Len(cachedMessages) :
                 (/\ isMentor(cachedMessages[i])
                  /\ NearestNonMentor(cachedMessages, i, j)
                  /\ cachedMessages[i].createdAt > cachedMessages[j].createdAt) =>
                    \E n \in 1..Len(samples) :
                       /\ samples[n].mentorMessage = cachedMessages[i]
                       /\ samples[n].precedingNonMentorMessage = cachedMessages[j]

\* a message of an unknown sender followed by two mentor replies: two
\* samples, both against the first message
C10_Witness ==
    /\ Rendered
    /\ Len(cachedMessages) = 3
    /\ cachedMessages[1].sender = Null
    /\ isMentor(cachedMessages[2])
    /\ isMentor(cachedMessages[3])
    /\ responseTimeData # Null
    /\ Get(responseTimeData).responseCount = 2
    /\ \A n \in 1..2 :
          Get(responseTimeData).responseTimes[n].precedingNonMentorMessage = cachedMessages[1]

\* the latency of position i against its nearest earlier non-mentor message
\* when i is a qualifying response, 0 otherwise
LatencyAt(messages, i) ==
    IF Qualifying(messages, i)
    THEN LET j == CHOOSE k \in 1..(i - 1) : NearestNonMentor(messages, i, k)
         IN messages[i].createdAt - messages[j].createdAt
    ELSE 0

\* the latencies of the qualifying responses among the first i messages, added up
RECURSIVE LatencySum(_, _)
LatencySum(messages, i) ==
    IF i = 0 THEN 0 ELSE LatencySum(messages, i - 1) + LatencyAt(messages, i)

\* the position of a message in the list (uuids are unique)
PositionOf(messages, message) ==
    CHOOSE k \in 1..Len(messages) : messages[k].uuid = message.uuid

\* C11: every sample has responseTimeMs = createdAt(mentorMessage) -
\* createdAt(precedingNonMentorMessage) and responseTimeMs > 0; a candidate
\* whose latency is zero or negative is discarded: responseCount counts the
\* qualifying responses only and the sum behind averageTimeMs adds only
\* their latencies.
C11_PositiveLatency ==
    (Rendered /\ responseTimeData # Null) =>
        LET result == Get(responseTimeData)
            samples == result.responseTimes
        IN /\ \A n \in 1..Len(samples) :
                 /\ samples[n].responseTimeMs =
                       samples[n].mentorMessage.createdAt
                       - samples[n].precedingNonMentorMessage.createdAt
                 /\ samples[n].responseTimeMs > 0
           /\ result.responseCount =
                 Cardinality({i \in 1..Len(cachedMessages) :
                                 Qualifying(cachedMessages, i)})
           /\ result.averageTimeMs.num = LatencySum(cachedMessages, Len(cachedMessages))

\* two mentor replies to one non-mentor message, the first at the same time
\* or earlier, the second strictly later: only the second is a sample
C11_Witness ==
    /\ Rendered
    /\ Len(cachedMessages) = 3
    /\ ~isMentor(cachedMessages[1])
    /\ isMentor(cachedMessages[2])
    /\ isMentor(cachedMessages[3])
    /\ cachedMessages[2].createdAt <= cachedMessages[1].createdAt
    /\ cachedMessages[3].createdAt > cachedMessages[1].createdAt
    /\ responseTimeData # Null
    /\ Get(responseTimeData).responseCount = 1
    /\ Get(responseTimeData).responseTimes[1].mentorMessage = cachedMessages[3]

\* C12: a non-null result has responseCount = the length of responseTimes,
\* averageTimeMs = the sum of the samples' responseTimeMs divided by
\* responseCount, and responseTimes in the order of the mentor messages'
\* positions in the input list.
C12_MeanAndOrder ==
    (Rendered /\ responseTimeData # Null) =>
        LET result == Get(responseTimeData)
            samples == result.responseTimes
        IN /\ result.responseCount = Len(samples)
           /\ result.averageTimeMs.den = result.responseCount
           /\ \/ Len(samples) = 1
                 /\ result.averageTimeMs.num = samples[1].responseTimeMs
              \/ Len(samples) = 2
                 /\ result.averageTimeMs.num =
                       samples[1].responseTimeMs + samples[2].responseTimeMs
              \/ Len(samples) >= 3
                 /\ result.averageTimeMs.num =
                       LatencySum(cachedMessages, Len(cachedMessages))
           /\ \A n \in 1..Len(samples), m \in 1..Len(samples) :
                 n < m => PositionOf(cachedMessages, samples[n].mentorMessage)
                          < PositionOf(cachedMessages, samples[m].mentorMessage)

\* two samples of different latencies: the mean is their sum over two, and
\* the sample of the earlier mentor message comes first
C12_Witness ==
    /\ Rendered
    /\ responseTimeData # Null
    /\ Get(responseTimeData).responseCount = 2
    /\ LET samples == Get(responseTimeData).responseTimes
       IN /\ samples[1].responseTimeMs # samples[2].responseTimeMs
          /\ Get(responseTimeData).averageTimeMs =
                [num |-> samples[1].responseTimeMs + samples[2].responseTimeMs,
                 den |-> 2]
          /\ PositionOf(cachedMessages, samples[1].mentorMessage)
             < PositionOf(cachedMessages, samples[2].mentorMessage)

----------------------------------------------------------------------------
(* Pair conversations: symmetry, soundness, duplicates, consistency *)

\* C15: the pair lookup is symmetric: in one response a pair conversation
\* embedding (a, b) and one embedding (b, a) have the same engagements list,
\* entry by entry, and the same engagement and engagementUuid.
C15_Symmetric ==
    Responded =>
        \A i \in 1..Len(Body), j \in 1..Len(Body) :
            LET pi == PairOf(Body[i])
                pj == PairOf(Body[j])
            IN (/\ pi # Null
                /\ pj # Null
                /\ Get(pi).userUuid1 = Get(pj).userUuid2
                /\ Get(pi).userUuid2 = Get(pj).userUuid1) =>
                  /\ Body[i].engagements = Body[j].engagements
                  /\ Body[i].engagement = Body[j].engagement
                  /\ Body[i].engagementUuid = Body[j].engagementUuid

\* the conversations of (U1, U2) and of (U2, U1) in one response, both
\* listing the same two engagements in the same order
C15_Witness ==
    /\ Responded
    /\ Len(Body) = 2
    /\ Body[1].cometConversationId = PairId(U1, U2)
    /\ Body[2].cometConversationId = PairId(U2, U1)
    /\ Len(Body[1].engagements) = 2
    /\ Body[1].engagements[1] # Body[1].engagements[2]
    /\ Body[2].engagements = Body[1].engagements

\* C17: every engagement listed for a pair conversation has both embedded
\* user uuids among its eligible participants; a member with none of the
\* roles mentor, student, guardian never causes a listing.
C17_Sound ==
    Responded =>
        \A i \in 1..Len(Body) :
            LET pair == PairOf(Body[i])
            IN pair # Null =>
                  \A n \in 1..Len(Body[i].engagements) :
                      /\ Get(pair).userUuid1 \in Eligible(Body[i].engagements[n].uuid)
                      /\ Get(pair).userUuid2 \in Eligible(Body[i].engagements[n].uuid)

\* U1, U2 and U3 are members of E1, U1 with none of the three roles and
\* nobody's guardian: E1 is listed for (U2, U3) and not for (U1, U2)
C17_Witness ==
    /\ Responded
    /\ Members(E1) = UserUuids
    /\ RolesOf(U1) = {"admin"}
    /\ U1 \notin Eligible(E1)
    /\ \E i \in 1..Len(Body), j \in 1..Len(Body) :
          /\ Body[i].cometConversationId = PairId(U2, U3)
          /\ \E n \in 1..Len(Body[i].engagements) : Body[i].engagements[n].uuid = E1
          /\ Body[j].cometConversationId = PairId(U1, U2)
          /\ \A n \in 1..Len(Body[j].engagements) : Body[j].engagements[n].uuid # E1

\* C18 as stated: the engagements list of a pair conversation has no two
\* entries with the same engagement uuid.
C18_NoDuplicates ==
    Responded =>
        \A i \in 1..Len(Body) :
            PairOf(Body[i]) # Null =>
                \A n \in 1..Len(Body[i].engagements), m \in 1..Len(Body[i].engagements) :
                    Body[i].engagements[n].uuid = Body[i].engagements[m].uuid => n = m

\* C19: in every conversation of the response a non-null engagement has the
\* uuid that engagementUuid holds, and a pair conversation with a non-null
\* engagement and a non-empty engagements list has engagements = [engagement].
C19_Consistent ==
    Responded =>
        \A i \in 1..Len(Body) :
            Body[i].engagement # Null =>
                /\ Body[i].engagementUuid = Some(Get(Body[i].engagement).uuid)
                /\ (Body[i].cometConversationType = "user" /\ Body[i].engagements # <<>>) =>
                      Body[i].engagements = <<[uuid |-> Get(Body[i].engagement).uuid,
                                               title |-> Get(Body[i].engagement).title]>>

\* one response with a group conversation of E2, a stored engagement, and a
\* pair conversation that E1 alone connects
C19_Witness ==
    /\ Responded
    /\ \E i \in 1..Len(Body), j \in 1..Len(Body) :
          /\ IsGroupConv(Body[i])
          /\ Body[i].engagement # Null
          /\ Body[i].engagementUuid = Some(E2)
          /\ Body[j].cometConversationType = "user"
          /\ Body[j].engagement # Null
          /\ Body[j].engagementUuid = Some(E1)
          /\ Len(Body[j].engagements) = 1

\* the stored row of an output conversation
RowOf(c) ==
    [uuid |-> c.uuid,
     userUuids |-> c.userUuids,
     updatedAt |-> c.updatedAt,
     cometConversationId |-> c.cometConversationId,
     cometConversationType |-> c.cometConversationType]

\* what the handler can return for a request that finds the conversations
\* convs, over the store as it is: one output per order of the rows of the
\* last query
Outputs(convs) ==
    {conversationsWithDetails(
         convs,
         SetToSeq({u \in dbUsers : u.uuid \in Range(allUserUuids(convs))}),
         SetToSeq(GroupEngagementRows(convs)),
         userEngagementsData) :
       userEngagementsData \in Perms(UserEngagementRows(convs))}

\* C16 as stated: each conversation of a response has the engagementUuid,
\* engagement and engagements that a request with that conversation alone
\* gives it over the same store (for some order of the fetched rows).
C16_Independent ==
    Responded =>
        \A i \in 1..Len(Body) :
            \E alone \in Outputs(<<RowOf(Body[i])>>) :
                /\ alone[1].engagementUuid = Body[i].engagementUuid
                /\ alone[1].engagement = Body[i].engagement
                /\ alone[1].engagements = Body[i].engagements

----------------------------------------------------------------------------
(* The three GET handlers: user details, failures, the messages route *)

\* the stored user with this uuid, null when the store has none
StoredUser(uuid) ==
    IF \E u \in dbUsers : u.uuid = uuid
    THEN Some(CHOOSE u \in dbUsers : u.uuid = uuid)
    ELSE Null

\* the messages route answered with a list of messages
MessagesListed == pc = "messages.done" /\ Get(response).status = 200

\* C13: in the conversations route's output each conversation's users list
\* follows userUuids, entry by entry, with details = the stored user of that
\* uuid or null; in the messages route and in the latest-messages route a
\* message's sender is the stored user with uuid senderUuid, or null.
C13_StoredUserOrNull ==
    /\ Responded =>
          \A i \in 1..Len(Body) :
              /\ Len(Body[i].users) = Len(Body[i].userUuids)
              /\ \A k \in 1..Len(Body[i].users) :
                    /\ Body[i].users[k].uuid = Body[i].userUuids[k]
                    /\ Body[i].users[k].details = StoredUser(Body[i].userUuids[k])
    /\ MessagesListed =>
          \A i \in 1..Len(Body.messages) :
              Body.messages[i].sender = StoredUser(Body.messages[i].senderUuid)
    /\ pc = "latest.done" =>
          \A i \in 1..Len(Body) :
              Body[i].latestMessage.sender = StoredUser(Body[i].latestMessage.senderUuid)

\* a conversation of U1, U3 and U2, the store having no row for U3: the
\* details of the second entry are null, those of the others are not
C13_Witness ==
    /\ Responded
    /\ StoredUser(U3) = Null
    /\ \E i \in 1..Len(Body) :
          /\ Body[i].userUuids = <<U1, U3, U2>>
          /\ Body[i].users[1].details # Null
          /\ Body[i].users[2] = [uuid |-> U3, details |-> Null]
          /\ Body[i].users[3].details # Null

\* the error message of each handler's catch block
ErrorOf(state) ==
    IF state = "error" THEN "Failed to fetch conversations"
    ELSE IF state = "messages.error" THEN "Failed to fetch messages"
    ELSE "Failed to fetch latest messages"

\* the states in which a handler is suspended at a query, or about to start
Running ==
    pc \in {"findConversations", "findUsers", "findGroupEngagements", "findUserEngagements",
            "messages.params", "messages.findMessages", "messages.findSenders",
            "latest.findConversations", "latest.findMessages", "latest.findSenders"}

\* C14: once a query of a handler has failed, whichever query it was, the
\* handler has returned status 500 with a body that holds the error message
\* and nothing else; and a handler that is no longer running has returned a
\* response (nothing escaped it).
C14_FailureIs500 ==
    /\ pc \in {"error", "messages.error", "latest.error"} =>
          response = Some([status |-> 500, body |-> [error |-> ErrorOf(pc)]])
    /\ ~Running => response # Null

\* the latest-messages route has failed over a store that holds messages
C14_Witness ==
    /\ pc = "latest.error"
    /\ dbMessages # {}
    /\ response # Null
    /\ Get(response).status = 500
    /\ conversations = <<>>
    /\ allMessages = <<>>

\* C20: the messages route given a non-empty conversationUuid returns
\* exactly the messages of that conversation with deletedAt = null, each
\* once, in ascending createdAt order, with totalCount = the length of the
\* list; given an empty conversationUuid it answers 400 at once, before any
\* query.
C20_MessagesOfConversation ==
    [][/\ (pc = "messages.params" /\ conversationUuid = <<>>) =>
             /\ pc' = "messages.done"
             /\ Get(response').status = 400
       /\ (pc = "messages.findSenders" /\ pc' = "messages.done") =>
             LET out == Get(response').body
                 rows == {m \in dbMessages : /\ m.conversationUuid = conversationUuid
                                             /\ m.deletedAt = Null}
             IN /\ Get(response').status = 200
                /\ {out.messages[i].uuid : i \in 1..Len(out.messages)} = {m.uuid : m \in rows}
                /\ Len(out.messages) = Cardinality(rows)
                /\ \A i \in 1..Len(out.messages) :
                      \E m \in rows : /\ m.uuid = out.messages[i].uuid
                                      /\ m.createdAt = out.messages[i].createdAt
                                      /\ m.senderUuid = out.messages[i].senderUuid
                /\ \A i \in 1..Len(out.messages), j \in 1..Len(out.messages) :
                      i < j => out.messages[i].createdAt <= out.messages[j].createdAt
                /\ out.totalCount = Len(out.messages)]_vars

\* two messages of the conversation returned, the older first, while the
\* store also holds a deleted message of it
C20_Witness ==
    /\ MessagesListed
    /\ Len(Body.messages) = 2
    /\ Body.totalCount = 2
    /\ Body.messages[1].createdAt < Body.messages[2].createdAt
    /\ \E m \in dbMessages : m.conversationUuid = conversationUuid /\ m.deletedAt # Null

----------------------------------------------------------------------------
(* The latest-messages route *)

\* the non-deleted messages of a conversation
LiveMessages(uuid) ==
    {m \in dbMessages : m.conversationUuid = uuid /\ m.deletedAt = Null}

\* C21: the latest-messages route returns exactly one entry for each
\* conversation with at least one non-deleted message and none for the
\* others; an entry's latestMessage is a non-deleted message of its
\* conversation, and no non-deleted message of the conversation is newer.
C21_LatestPerConversation ==
    pc = "latest.done" =>
        /\ {Body[i].conversationUuid : i \in 1..Len(Body)} =
              {c.uuid : c \in {r \in Range(dbConversations) : LiveMessages(r.uuid) # {}}}
        /\ \A i \in 1..Len(Body), j \in 1..Len(Body) :
              Body[i].conversationUuid = Body[j].conversationUuid => i = j
        /\ \A i \in 1..Len(Body) :
              /\ \E m \in LiveMessages(Body[i].conversationUuid) :
                    /\ m.uuid = Body[i].latestMessage.uuid
                    /\ m.createdAt = Body[i].latestMessage.createdAt
                    /\ m.senderUuid = Body[i].latestMessage.senderUuid
              /\ \A m \in LiveMessages(Body[i].conversationUuid) :
                    m.createdAt <= Body[i].latestMessage.createdAt

\* the first conversation has two non-deleted messages and a deleted one
\* that is newer than both, the second has no message: one entry, with the
\* newer of the two non-deleted messages
C21_Witness ==
    /\ pc = "latest.done"
    /\ Len(Body) = 1
    /\ Len(dbConversations) = 2
    /\ Body[1].conversationUuid = dbConversations[1].uuid
    /\ \E m \in LiveMessages(dbConversations[1].uuid) :
          m.createdAt < Body[1].latestMessage.createdAt
    /\ \E m \in dbMessages :
          /\ m.conversationUuid = dbConversations[1].uuid
          /\ m.deletedAt # Null
          /\ m.createdAt > Body[1].latestMessage.createdAt

----------------------------------------------------------------------------
(* The dashboard page, page.tsx:72-281 and its event handlers: one action  *)
(* per event handler and one per completion of a request.  The engagement  *)
(* search box stays empty, and no name or e-mail address of a user         *)
(* contains the text of the user search box.                               *)

\* page.tsx:155
PreloadLimit == 25

UpperCase == <<"A", "B", "C", "D", "E", "F", "G", "H", "I", "J", "K", "L", "M",
               "N", "O", "P", "Q", "R", "S", "T", "U", "V", "W", "X", "Y", "Z">>

LowerCase == <<"a", "b", "c", "d", "e", "f", "g", "h", "i", "j", "k", "l", "m",
               "n", "o", "p", "q", "r", "s", "t", "u", "v", "w", "x", "y", "z">>

\* String.prototype.toLowerCase
toLowerCase(s) ==
    [i \in 1..Len(s) |->
        IF s[i] \in Range(UpperCase)
        THEN LowerCase[CHOOSE n \in 1..Len(UpperCase) : UpperCase[n] = s[i]]
        ELSE s[i]]

\* String.prototype.includes
includes(s, t) == \E p \in 1..(Len(s) + 1) : OccursAt(s, t, p)

\* String.prototype.trim, for the blank
RECURSIVE trim(_)
trim(s) ==
    IF s = <<>> THEN s
    ELSE IF Head(s) = " " THEN trim(Tail(s))
    ELSE IF s[Len(s)] = " " THEN trim(SubSeq(s, 1, Len(s) - 1))
    ELSE s

\* page.tsx:124-141  matchesUser
matchesUser(conversation, term) ==
    \E k \in 1..Len(conversation.users) :
        includes(toLowerCase(conversation.users[k].uuid), toLowerCase(term))

\* page.tsx:102-145  filtered
filtered(allConversations, term) ==
    FilterIdx(allConversations,
              {i \in 1..Len(allConversations) : matchesUser(allConversations[i], term)})

\* { ...prev, [key]: value }
Put(record, key, value) ==
    [k \in DOMAIN record \cup {key} |-> IF k = key THEN value ELSE record[k]]

\* xs without its i-th element
Without(xs, i) == SubSeq(xs, 1, i - 1) \o SubSeq(xs, i + 1, Len(xs))

\* page.tsx:175-184, 232-239  the createdAt of the latest message
latestCreatedAt(msgs) ==
    CHOOSE t \in {msgs[i].createdAt : i \in 1..Len(msgs)} :
        \A i \in 1..Len(msgs) : msgs[i].createdAt <= t

\* the bodies GET /api/messages/uuid can answer with, part_000:18-75
MessagesBodies(uuid) ==
    {[messages |-> messagesWithSenders(
                       [i \in 1..Len(rows) |-> SelectMessage(rows[i])],
                       SenderRows(senderUuids(rows))),
      totalCount |-> Len(rows)] : rows \in SortedAsc(MessageRowsOf(uuid))}

\* what a fetch can end with: a 2xx response, another response, a rejection
Outcomes == {"ok", "notOk", "rejected"}

serverVars == <<dbVars, pc, handlerVars, messageVars, pageVars>>

\* the number of requests in flight
InFlight == Len(searchRequests) + Len(messageRequests) + Len(preloadRequests)

\* page.tsx:325, 338  onChange of the user search box
TypeUserSearch ==
    /\ \E term \in {<<>>, U1, U2} :
          /\ term # userSearch
          /\ userSearch' = term
    /\ UNCHANGED <<serverVars, pageConversations, loading, selectedConversation,
                   pageMessages, messagesCache, loadingMessages,
                   conversationMessageCounts, conversationLatestDates,
                   searchRequests, messageRequests, preloadRequests,
                   latestSearchResult>>

\* page.tsx:91-99  searchConversations up to its first await
searchConversations ==
    /\ IF trim(userSearch) = <<>>
       THEN /\ pageConversations' = <<>>
            /\ UNCHANGED <<loading, searchRequests, latestSearchResult>>
       ELSE /\ InFlight < MaxInFlight
            /\ loading' = TRUE
            /\ searchRequests' =
                  [i \in 1..Len(searchRequests) |->
                      [searchRequests[i] EXCEPT !.latest = FALSE]]
                  \o <<[userSearch |-> userSearch,
                        cached |-> DOMAIN messagesCache,
                        latest |-> TRUE]>>
            /\ latestSearchResult' = Null
            /\ UNCHANGED pageConversations
    /\ UNCHANGED <<serverVars, userSearch, selectedConversation, pageMessages,
                   messagesCache, loadingMessages, conversationMessageCounts,
                   conversationLatestDates, messageRequests, preloadRequests>>

\* page.tsx:273-275, 345-355  the Search button, disabled while loading or
\* without a search text
ClickSearch ==
    /\ ~loading
    /\ trim(userSearch) # <<>>
    /\ searchConversations

\* page.tsx:277-281  Enter in a search box
PressEnter ==
    /\ pc = "page"
    /\ searchConversations

\* page.tsx:99-211  a call of searchConversations from its first await on
SearchCompletes ==
    /\ \E i \in 1..Len(searchRequests), outcome \in Outcomes :
          LET request == searchRequests[i]
          IN /\ IF outcome = "ok"
                THEN \E allConversations \in Outputs(SortByUpdatedAtDesc(dbConversations)) :
                     \E result \in {filtered(allConversations, request.userSearch)} :
                        LET preload == FilterIdx(result,
                                           {k \in 1..Len(result) :
                                               result[k].uuid \notin request.cached})
                        IN /\ pageConversations' = result
                           /\ IF /\ trim(request.userSearch) # <<>>
                                 /\ Len(result) > 0
                                 /\ Len(result) <= PreloadLimit
                              THEN /\ InFlight - 1 + Len(preload) <= MaxInFlight
                                   /\ preloadRequests' = preloadRequests \o
                                         [k \in 1..Len(preload) |-> preload[k].uuid]
                              ELSE UNCHANGED preloadRequests
                ELSE /\ pageConversations' = <<>>
                     /\ UNCHANGED preloadRequests
             /\ latestSearchResult' = IF request.latest THEN Some(pageConversations')
                                      ELSE latestSearchResult
             /\ searchRequests' = Without(searchRequests, i)
    /\ loading' = FALSE
    /\ UNCHANGED <<serverVars, userSearch, selectedConversation, pageMessages,
                   messagesCache, loadingMessages, conversationMessageCounts,
                   conversationLatestDates, messageRequests>>

\* page.tsx:159-199  a preload callback from its first await on
PreloadCompletes ==
    /\ \E i \in 1..Len(preloadRequests), outcome \in Outcomes :
          LET uuid == preloadRequests[i]
          IN /\ IF outcome = "ok"
                THEN \E data \in MessagesBodies(uuid) :
                        /\ messagesCache' = Put(messagesCache, uuid, data.messages)
                        /\ conversationMessageCounts' =
                              Put(conversationMessageCounts, uuid, Len(data.messages))
                        /\ conversationLatestDates' =
                              IF Len(data.messages) > 0
                              THEN Put(conversationLatestDates, uuid,
                                       latestCreatedAt(data.messages))
                              ELSE conversationLatestDates
                ELSE UNCHANGED <<messagesCache, conversationMessageCounts,
                                 conversationLatestDates>>
             /\ preloadRequests' = Without(preloadRequests, i)
    /\ UNCHANGED <<serverVars, userSearch, pageConversations, loading,
                   selectedConversation, pageMessages, loadingMessages,
                   searchRequests, messageRequests, latestSearchResult>>

\* page.tsx:268-271, 214-223, 419  a click on a conversation card:
\* selectConversation and fetchMessages up to its first await
SelectConversation ==
    /\ \E k \in 1..Len(pageConversations) :
          LET uuid == pageConversations[k].uuid
          IN /\ selectedConversation' = Some(uuid)
             /\ IF uuid \in DOMAIN messagesCache
                THEN /\ pageMessages' = messagesCache[uuid]
                     /\ UNCHANGED <<loadingMessages, messageRequests>>
                ELSE /\ InFlight < MaxInFlight
                     /\ loadingMessages' = TRUE
                     /\ messageRequests' = Append(messageRequests, uuid)
                     /\ UNCHANGED pageMessages
    /\ UNCHANGED <<serverVars, userSearch, pageConversations, loading,
                   messagesCache, conversationMessageCounts,
                   conversationLatestDates, searchRequests, preloadRequests,
                   latestSearchResult>>

\* page.tsx:223-265  a call of fetchMessages from its first await on
MessagesFetchCompletes ==
    /\ \E i \in 1..Len(messageRequests), outcome \in Outcomes :
          LET uuid == messageRequests[i]
          IN /\ IF outcome = "ok"
                THEN \E data \in MessagesBodies(uuid) :
                        /\ pageMessages' = data.messages
                        /\ messagesCache' = Put(messagesCache, uuid, data.messages)
                        /\ conversationMessageCounts' =
                              Put(conversationMessageCounts, uuid, Len(data.messages))
                        /\ conversationLatestDates' =
                              IF Len(data.messages) > 0
                              THEN Put(conversationLatestDates, uuid,
                                       latestCreatedAt(data.messages))
                              ELSE conversationLatestDates
                ELSE IF outcome = "notOk"
                THEN /\ pageMessages' = <<>>
                     /\ conversationMessageCounts' =
                           Put(conversationMessageCounts, uuid, 0)
                     /\ UNCHANGED <<messagesCache, conversationLatestDates>>
                ELSE /\ pageMessages' = <<>>
                     /\ UNCHANGED <<messagesCache, conversationMessageCounts,
                                    conversationLatestDates>>
             /\ messageRequests' = Without(messageRequests, i)
    /\ loadingMessages' = FALSE
    /\ UNCHANGED <<serverVars, userSearch, pageConversations, loading,
                   selectedConversation, searchRequests, preloadRequests,
                   latestSearchResult>>

\* page.tsx:357-366  Clear All, shown while a search box holds text
ClearAll ==
    /\ userSearch # <<>>
    /\ userSearch' = <<>>
    /\ pageConversations' = <<>>
    /\ selectedConversation' = Null
    /\ pageMessages' = <<>>
    /\ UNCHANGED <<serverVars, loading, messagesCache, loadingMessages,
                   conversationMessageCounts, conversationLatestDates,
                   searchRequests, messageRequests, preloadRequests,
                   latestSearchResult>>

\* page.tsx:693-701  the back button of the messages panel
Back ==
    /\ selectedConversation # Null
    /\ selectedConversation' = Null
    /\ pageMessages' = <<>>
    /\ UNCHANGED <<serverVars, userSearch, pageConversations, loading,
                   messagesCache, loadingMessages, conversationMessageCounts,
                   conversationLatestDates, searchRequests, messageRequests,
                   preloadRequests, latestSearchResult>>

NextPage ==
    \/ TypeUserSearch
    \/ ClickSearch
    \/ PressEnter
    \/ SearchCompletes
    \/ PreloadCompletes
    \/ SelectConversation
    \/ MessagesFetchCompletes
    \/ ClearAll
    \/ Back

\* The page over a store of two conversations: U1 takes part in the first,
\* U2 in both; the first holds two messages, the second one.
InitPage ==
    /\ DashboardMounted
    /\ dbUsers = {[uuid |-> U1, roles |-> {"mentor"}], [uuid |-> U2, roles |-> {"student"}]}
    /\ dbEngagements = <<[uuid |-> E1, title |-> "Alpha"]>>
    /\ dbUsersEngagements = MemberRows({U1, U2}, {})
    /\ dbGuardianStudents = {}
    /\ dbConversations =
          ConversationRows(<<[type |-> "user", id |-> PairId(U1, U2), userUuids |-> <<U2, U1>>],
                             [type |-> "group", id |-> GroupId(E1), userUuids |-> <<U3, U2>>]>>)
    /\ dbMessages =
          MessageRows({m \in MessageKinds \X {0, MaxTime} :
                          \/ m[1].senderUuid = U1 /\ m[2] = 0
                          \/ m[1].senderUuid = U3 /\ m[2] = MaxTime
                          \/ m[1].conversation = 2 /\ m[2] = MaxTime})
    /\ pc = "page"
    /\ conversations = <<>>
    /\ users = <<>>
    /\ groupEngagements = <<>>
    /\ response = Null
    /\ conversationUuid = <<>>
    /\ fetchedMessages = <<>>
    /\ allMessages = <<>>
    /\ cachedMessages = <<>>
    /\ responseTimeData = Null

SpecPage == InitPage /\ [][NextPage]_vars

----------------------------------------------------------------------------
(* The dashboard page: what is shown *)

\* the lists GET /api/messages answers with for a conversation
MessageListsOf(uuid) == {data.messages : data \in MessagesBodies(uuid)}

\* C22 as stated: whenever no message fetch is in flight and a conversation
\* is selected, the messages shown are none or the message list of the
\* selected conversation.
C22_ShownMessagesOfSelection ==
    (/\ messageRequests = <<>>
     /\ preloadRequests = <<>>
     /\ selectedConversation # Null) =>
        \/ pageMessages = <<>>
        \/ pageMessages \in MessageListsOf(Get(selectedConversation))

\* C23 as stated: a conversation with an entry in messagesCache has a count
\* in conversationMessageCounts, the number of messages of the entry.
C23_CountOfCachedMessages ==
    \A uuid \in DOMAIN messagesCache :
        /\ uuid \in DOMAIN conversationMessageCounts
        /\ conversationMessageCounts[uuid] = Len(messagesCache[uuid])

\* C24 as stated: loading is true while a search request is in flight, and
\* when the last search request in flight completes, loading is false and
\* the conversations shown are what the most recently started search gave
\* (none if it failed).
C24_LoadingAndLatestSearch ==
    [][/\ searchRequests' # <<>> => loading' = TRUE
       /\ (searchRequests # <<>> /\ searchRequests' = <<>>) =>
             /\ loading' = FALSE
             /\ latestSearchResult' # Null
             /\ pageConversations' = Get(latestSearchResult')]_vars

====
